---- MODULE Spec2Model ----
(***************************************************************************)
(* A model of the terminal editor of src/src/editor.rs: the Editor struct, *)
(* its key-event loop, its cursor engine and its save workflow.            *)
(*                                                                         *)
(* editor.rs is modelled from its code.  The Buffer type it drives         *)
(* (crate::buffer) is not among the sources; its operations are modelled   *)
(* from the specification's section 4.1, and the terminal (crossterm) by   *)
(* what a terminal does with a cursor move: it keeps the cursor inside     *)
(* the window.                                                             *)
(***************************************************************************)
EXTENDS Integers, Sequences, FiniteSets, TLC

\* ------------------------------------------------------------------ bounds

\* Longest content (in characters) the user types into the user buffer, and
\* into the reserved buffer.
MaxLen == 3
MaxName == 2
\* Longest content in which the model presses Tab.
MaxBeforeTab == 0
\* The deepest buffer row the model lets a key address (the scroll offset of
\* an empty buffer has no bound of its own).
MaxRow == 3
\* The number of events a bounded run handles.
MaxEvents == 6
\* Tallest terminal window (rows); windows have 1..MaxHeight rows.
MaxHeight == 2
\* Largest row, column and occupied column handed to the cursor engine when
\* it is examined as a pure function, and the longest occupied sequence.
MaxCoord == 3

\* ------------------------------------------------------- program constants

\* const TAB_SIZE: u16 = 4
TAB_SIZE == 4

\* The number of values of a u16.
U16 == 65536

\* ------------------------------------------------------------ Rust values

\* Option<T>: None is the empty tuple, Some(x) the one-element tuple.
None == <<>>
Some(x) == <<x>>
IsSome(o) == o # None
Unwrap(o) == o[1]

Min(a, b) == IF a <= b THEN a ELSE b

\* enum EditorMode
Normal == "Normal"
SaveMode == "SaveMode"

\* enum CursorMovement
Up == "Up"
Down == "Down"
Left == "Left"
Right == "Right"
CursorMovement == {Up, Down, Left, Right}

\* enum BufferType
OPTION == "OPTION"
NORMAL == "NORMAL"

\* The line-break character, the characters a user types, and the space a Tab
\* inserts.
NL == "\n"
SPACE == " "
Chars == {"a", SPACE}

\* A u16 subtraction a - b.  When a < b a debug build panics and a release
\* build wraps; both are outcomes of the same source line.
SubWraps(a, b) == a < b
WrappingSub(a, b) == IF a >= b THEN a - b ELSE a - b + U16

\* ------------------------------------------------------------ cursor engine

\* The clamp of a column beyond the row's content for Up and Down.
ClampVerticalOff(row, occupied) == Some(<<row, occupied + 2>>)
ClampVertical(row, occupied) == Some(<<row, occupied>>)

\* The clamp for Left: the previous row at its last occupied column.
ClampLeftToStart(occupied_positions, row) ==
    IF row > 0 THEN Some(<<row - 1, 0>>) ELSE None
ClampLeft(occupied_positions, row) ==
    IF row > 0
    THEN LET last_position == occupied_positions[(row - 1) + 1]
         IN  IF IsSome(last_position)
             THEN Some(<<row - 1, Unwrap(last_position)>>)
             ELSE Some(<<row - 1, 0>>)
    ELSE None

\* The clamp for Right: the next row at column 0, when there is one.
ClampRightPastEnd(occupied_positions, row) ==
    IF (row + 1) <= Len(occupied_positions)
    THEN Some(<<row + 1, 0>>)
    ELSE None
ClampRight(occupied_positions, row) ==
    IF (row + 1) < Len(occupied_positions)
    THEN Some(<<row + 1, 0>>)
    ELSE None

\* Editor::get_cursor_valid_position, as a function of the occupied columns
\* the buffer reports (one entry per row: None for an empty row).
get_cursor_valid_position(occupied_positions, row, col, movement) ==
    IF occupied_positions = <<>>
    THEN Some(<<row, col>>)
    ELSE IF row >= Len(occupied_positions)
    THEN None
    ELSE LET entry == occupied_positions[row + 1]
         IN  IF IsSome(entry)
             THEN LET occupied == Unwrap(entry)
                  IN  IF col <= occupied + 1
                      THEN Some(<<row, col>>)
                      ELSE CASE movement = Up -> ClampVertical(row, occupied)
                             [] movement = Down -> ClampVertical(row, occupied)
                             [] movement = Left -> ClampLeft(occupied_positions, row)
                             [] movement = Right -> ClampRight(occupied_positions, row)
             ELSE IF (row + 1) < Len(occupied_positions) /\ movement = Right
                  THEN Some(<<row + 1, 0>>)
                  ELSE Some(<<row, 0>>)

\* Editor::is_cursor_position_valid
is_cursor_position_valid_strict(occupied_positions, row, col) ==
    IF occupied_positions = <<>>
    THEN TRUE
    ELSE IF row >= Len(occupied_positions)
    THEN FALSE
    ELSE LET entry == occupied_positions[row + 1]
         IN  IF IsSome(entry) THEN col <= Unwrap(entry) ELSE col = 0
is_cursor_position_valid(occupied_positions, row, col) ==
    IF occupied_positions = <<>>
    THEN TRUE
    ELSE IF row >= Len(occupied_positions)
    THEN FALSE
    ELSE LET entry == occupied_positions[row + 1]
         IN  IF IsSome(entry) THEN col <= Unwrap(entry) + 1 ELSE col = 0

\* ------------------------------------------------------------------ Buffer
\* crate::buffer is not among the sources.  A buffer is the record
\* [content, point, file_name, buffer_type] (the fields init_option_buffer
\* sets; mark_list stays empty and is left out), its point the (row, column)
\* pair of the specification's Mark, and its operations are those of the
\* specification's section 4.1.

\* The lines of a content: the runs between line breaks.  A content of n line
\* breaks has n + 1 lines; the empty content is one empty line.
RECURSIVE SplitLines(_)
SplitLines(content) ==
    IF \A i \in 1..Len(content) : content[i] # NL
    THEN <<content>>
    ELSE LET i == CHOOSE k \in 1..Len(content) :
                      /\ content[k] = NL
                      /\ \A j \in 1..(k - 1) : content[j] # NL
         IN  <<SubSeq(content, 1, i - 1)>>
                 \o SplitLines(SubSeq(content, i + 1, Len(content)))

NumLines(content) == Len(SplitLines(content))

\* The content's characters before the start of `row`.
RECURSIVE LineStart(_, _)
LineStart(lines, row) ==
    IF row = 0 THEN 0 ELSE LineStart(lines, row - 1) + Len(lines[row]) + 1

\* A point addresses a character of an existing row, or the position after
\* the row's last character.
PointValid(content, point) ==
    LET lines == SplitLines(content)
    IN  /\ point.row < Len(lines)
        /\ point.col <= Len(lines[point.row + 1])

\* The linear position of a valid point.
LinearPosition(content, point) ==
    LineStart(SplitLines(content), point.row) + point.col

InsertAt(content, pos, c) ==
    SubSeq(content, 1, pos) \o <<c>> \o SubSeq(content, pos + 1, Len(content))

RemoveAt(content, i) ==
    SubSeq(content, 1, i - 1) \o SubSeq(content, i + 1, Len(content))

\* The outcome of a buffer operation: it failed (an error or a panic, which
\* ends the editor), or it left this content.
Failure == [ok |-> FALSE, content |-> <<>>]
Done(content) == [ok |-> TRUE, content |-> content]

\* Buffer::write_char: inserts c at the point's linear position and leaves
\* the point to the caller.  A point that addresses nothing has no linear
\* position: the operation is outside its contract, and may fail or insert
\* anywhere.
write_char(buffer, c) ==
    IF PointValid(buffer.content, buffer.point)
    THEN {Done(InsertAt(buffer.content,
                        LinearPosition(buffer.content, buffer.point), c))}
    ELSE {Failure} \cup
         {Done(InsertAt(buffer.content, pos, c)) : pos \in 0..Len(buffer.content)}

\* Buffer::remove_char: deletes the character before the point's linear
\* position.  At the absolute start the buffer does not clamp: nothing is
\* there to delete, and the storage may reject the call.  Outside its
\* contract (a point that addresses nothing) it may fail or delete any
\* character.
remove_char(buffer) ==
    IF PointValid(buffer.content, buffer.point)
    THEN LET pos == LinearPosition(buffer.content, buffer.point)
         IN  IF pos > 0
             THEN {Done(RemoveAt(buffer.content, pos))}
             ELSE {Failure, Done(buffer.content)}
    ELSE {Failure, Done(buffer.content)} \cup
         {Done(RemoveAt(buffer.content, i)) : i \in 1..Len(buffer.content)}

\* Buffer::move_point_to: relocates the point, without validation.
move_point_to(buffer, row, col) ==
    [buffer EXCEPT !.point = [row |-> row, col |-> col]]

\* Buffer::get_last_visible_char_position: one entry per row, Some(last
\* occupied column) or None for an empty row; no entry at all for the empty
\* content.  The call passes no viewport and a Buffer holds none, so the rows
\* are those of the whole content.
get_last_visible_char_position(buffer) ==
    IF buffer.content = <<>>
    THEN <<>>
    ELSE LET lines == SplitLines(buffer.content)
         IN  [i \in 1..Len(lines) |->
                 IF lines[i] = <<>> THEN None ELSE Some(Len(lines[i]) - 1)]

\* Buffer::get_last_column: the last valid column of a row, the position
\* after its last character.  A row the content does not have is outside the
\* contract: the call may fail (None here) or answer 0.
get_last_column(buffer, row) ==
    LET lines == SplitLines(buffer.content)
    IN  IF row < Len(lines) THEN {Some(Len(lines[row + 1]))} ELSE {None, Some(0)}

\* Buffer::get_point_line_and_column
get_point_line_and_column(buffer) == Some(<<buffer.point.row, buffer.point.col>>)

\* ------------------------------------------------------------------- state

VARIABLES
    buffer_list,      \* Editor.buffer_list: <<reserved buffer, user buffer>>
    current_buffer,   \* Editor.current_buffer (an index from 0)
    previous_buffer,  \* Editor.previous_buffer
    mode,             \* Editor.mode
    exit,             \* Editor.exit
    display,          \* Editor.display: [width, height, first_line_visible]
    term,             \* the terminal window: [width, height]
    cursor,           \* the terminal cursor: [col, row]
    saved,            \* the cursor position SavePosition stored, until it is restored
    pc,               \* "loop": handle_key_events reads; "prompt": the yes/no loop reads
    failed,           \* an operation returned an error or panicked: run() is over
    written,          \* the file the last event wrote: None or Some([path, data])
    budget,           \* the events a bounded run may still handle (-1: no bound)
    watch,            \* which of the three histories below is being recorded
    last,             \* the last event handled, and the scroll offset it met
    undo,             \* a character typed and removed at once: the content before
    wf,               \* the save-as event sequence: its phase, the name typed
    query,            \* an input of the cursor engine examined on its own
    answer            \* the engine's answers to it

editorVars == <<buffer_list, current_buffer, previous_buffer, mode, exit, display>>
vars == <<buffer_list, current_buffer, previous_buffer, mode, exit, display,
          term, cursor, saved, pc, failed, written, budget, watch, last, undo, wf,
          query, answer>>

\* buffer_list[i] of the source, whose indices start at 0.
Buffer(i) == buffer_list[i + 1]
Current == Buffer(current_buffer)
SetBuffer(list, i, buffer) == [list EXCEPT ![i + 1] = buffer]

\* The terminal windows of the model: one per height, each wide enough for
\* the longest line and wider the taller it is.
Sizes == {[width |-> MaxLen + 2 + h, height |-> h] : h \in 1..MaxHeight}

\* crossterm's MoveTo: the terminal keeps the cursor inside its window.
MoveTo(col, row) ==
    [col |-> Min(col, term.width - 1), row |-> Min(row, term.height - 1)]

\* crossterm's SavePosition and RestorePosition.  Every RestorePosition of
\* the editor follows the SavePosition of the same save workflow, so the
\* stored position is dropped once it is restored.
Origin == [col |-> 0, row |-> 0]
RestorePosition ==
    /\ cursor' = MoveTo(saved.col, saved.row)
    /\ saved' = Origin

\* The file names and contents a buffer may be loaded with.
RECURSIVE SeqsUpTo(_, _)
SeqsUpTo(S, n) ==
    IF n = 0 THEN {<<>>}
    ELSE LET shorter == SeqsUpTo(S, n - 1)
         IN  shorter \cup {Append(s, x) : s \in shorter, x \in S}

LoadedName == <<"f">>
LoadedContents == SeqsUpTo({"a", NL}, MaxLen)

\* Editor::init_option_buffer
init_option_buffer ==
    [content |-> <<>>, point |-> [row |-> 0, col |-> 0],
     file_name |-> None, buffer_type |-> OPTION]

\* Buffer::default
BufferDefault ==
    [content |-> <<>>, point |-> [row |-> 0, col |-> 0],
     file_name |-> None, buffer_type |-> NORMAL]

\* The cursor engine examined on its own: an input, and Some(its result) once
\* the engine has answered.
NoQuery == [occupied_positions |-> <<>>, row |-> 0, col |-> 0, movement |-> Up]
NoAnswer == None

NoWorkflow ==
    [phase |-> "idle", typed |-> <<>>, current |-> 1, previous |-> 0, flv |-> 0]

NoHistory ==
    /\ last = [ev |-> "start", flv |-> 0]
    /\ undo = [phase |-> "none", before |-> <<>>]
    /\ wf = NoWorkflow

\* Editor::default, then Editor::init with or without a file, then the start
\* of Editor::run: the buffer is drawn and the cursor is at the origin.
EditorInit ==
    /\ \E loaded \in {None} \cup {Some(c) : c \in LoadedContents} :
         buffer_list =
            << init_option_buffer,
               IF IsSome(loaded)
               THEN [BufferDefault EXCEPT !.content = Unwrap(loaded),
                                          !.file_name = Some(LoadedName)]
               ELSE BufferDefault >>
    /\ current_buffer = 1
    /\ previous_buffer = 0
    /\ mode = Normal
    /\ exit = FALSE
    /\ \E size \in Sizes :
         /\ display = [width |-> size.width, height |-> size.height,
                       first_line_visible |-> 0]
         /\ term = size
    /\ cursor = Origin
    /\ saved = Origin
    /\ pc = "loop"
    /\ failed = FALSE
    /\ written = None

Init ==
    /\ EditorInit
    /\ NoHistory
    /\ watch = "last"
    /\ budget = MaxEvents
    /\ query = NoQuery
    /\ answer = NoAnswer

\* ---------------------------------------------------------------- handlers
\* Each handler is the action of one call.  A handler that returns an error
\* with `?`, or panics, ends run(): failed becomes TRUE with what was assigned
\* before.

\* The outcomes of a u16 subtraction: the difference, or below zero a panic
\* (None) in a debug build and the wrapped value in a release build.
SubOutcomes(a, b) ==
    IF SubWraps(a, b) THEN {None, Some(WrappingSub(a, b))} ELSE {Some(a - b)}

\* "if new_row - first_line_visible >= height { first_line_visible + 1 }"
ScrollForwardPage(new_row, first_line_visible, height) ==
    IF new_row - first_line_visible >= height
    THEN first_line_visible + height
    ELSE first_line_visible
ScrollForward(new_row, first_line_visible, height) ==
    IF new_row - first_line_visible >= height
    THEN first_line_visible + 1
    ELSE first_line_visible

\* "if new_row < first_line_visible { first_line_visible - 1 }"
ScrollBack(new_row, first_line_visible) ==
    IF new_row < first_line_visible
    THEN first_line_visible - 1
    ELSE first_line_visible

Occupied == get_last_visible_char_position(Current)
NewRow(r) == Unwrap(r)[1]
NewCol(r) == Unwrap(r)[2]
PointMovedTo(row, col) ==
    SetBuffer(buffer_list, current_buffer, move_point_to(Current, row, col))

\* The handler did nothing.
NoMove == UNCHANGED <<buffer_list, display, cursor, failed>>

\* The handler stopped on an error or a panic, the buffers as given.
Abort(list) ==
    /\ failed' = TRUE
    /\ buffer_list' = list
    /\ UNCHANGED <<display, cursor>>

\* Editor::handle_cursor_right
handle_cursor_right(col, row) ==
    LET flv == display.first_line_visible
        r == get_cursor_valid_position(Occupied, row + flv, col + 1, Right)
    IN  IF IsSome(r)
        THEN LET scrolled == ScrollForward(NewRow(r), flv, display.height)
             IN  /\ buffer_list' = PointMovedTo(NewRow(r), NewCol(r))
                 /\ display' = [display EXCEPT !.first_line_visible = scrolled]
                 /\ cursor' = MoveTo(NewCol(r), NewRow(r) - scrolled)
                 /\ UNCHANGED failed
        ELSE NoMove

\* Editor::handle_cursor_left
handle_cursor_left(col, row) ==
    LET flv == display.first_line_visible
        r == get_cursor_valid_position(Occupied, row + flv, col - 1, Left)
    IN  IF col >= 1 /\ IsSome(r)
        THEN \E screen_row \in SubOutcomes(NewRow(r), flv) :
                IF IsSome(screen_row)
                THEN /\ buffer_list' = PointMovedTo(NewRow(r), NewCol(r))
                     /\ cursor' = MoveTo(NewCol(r), Unwrap(screen_row))
                     /\ UNCHANGED <<display, failed>>
                ELSE Abort(PointMovedTo(NewRow(r), NewCol(r)))
        ELSE NoMove

\* The buffer row below the cursor: "row + self.display.first_line_visible + 1".
RowBelowOnScreen(row, first_line_visible) == row + 1
RowBelow(row, first_line_visible) == row + first_line_visible + 1

\* Editor::handle_cursor_down
handle_cursor_down(col, row) ==
    LET flv == display.first_line_visible
        r == get_cursor_valid_position(Occupied, RowBelow(row, flv), col, Down)
    IN  IF IsSome(r)
        THEN LET scrolled == ScrollForward(NewRow(r), flv, display.height)
             IN  /\ buffer_list' = PointMovedTo(NewRow(r), NewCol(r))
                 /\ display' = [display EXCEPT !.first_line_visible = scrolled]
                 /\ cursor' = MoveTo(NewCol(r), NewRow(r) - scrolled)
                 /\ UNCHANGED failed
        ELSE NoMove

\* Editor::handle_cursor_up
handle_cursor_up(col, row) ==
    LET flv == display.first_line_visible
        r == get_cursor_valid_position(Occupied, (flv + row) - 1, col, Up)
    IN  IF (row >= 1 \/ flv # 0) /\ IsSome(r)
        THEN LET scrolled == ScrollBack(NewRow(r), flv)
             IN  /\ display' = [display EXCEPT !.first_line_visible = scrolled]
                 /\ buffer_list' = PointMovedTo(NewRow(r), NewCol(r))
                 /\ cursor' = MoveTo(NewCol(r), NewRow(r) - scrolled)
                 /\ UNCHANGED failed
        ELSE NoMove

\* Editor::handle_cursor_movement
handle_cursor_movement(movement) ==
    LET col == cursor.col
        row == cursor.row
    IN  CASE movement = Up -> handle_cursor_up(col, row)
          [] movement = Down -> handle_cursor_down(col, row)
          [] movement = Left -> handle_cursor_left(col, row)
          [] movement = Right -> handle_cursor_right(col, row)

\* The buffer the character handlers write to.
InputBufferUser == IF mode = SaveMode THEN previous_buffer ELSE current_buffer
InputBuffer == current_buffer

\* Editor::handle_char_input
handle_char_input(c) ==
    LET col == cursor.col
        row == cursor.row
        target == Buffer(InputBuffer)
    IN  \E w \in write_char(target, c) :
           IF w.ok
           THEN /\ buffer_list' =
                      SetBuffer(buffer_list, InputBuffer,
                          move_point_to([target EXCEPT !.content = w.content],
                                        row + display.first_line_visible, col + 1))
                /\ cursor' = MoveTo(col + 1, row)
                /\ UNCHANGED <<display, failed>>
           ELSE Abort(buffer_list)

\* c written n times at the point, which no write moves.
RECURSIVE write_times(_, _, _)
write_times(buffer, c, n) ==
    IF n = 0
    THEN {Done(buffer.content)}
    ELSE UNION { IF w.ok
                 THEN write_times([buffer EXCEPT !.content = w.content], c, n - 1)
                 ELSE {Failure} : w \in write_char(buffer, c) }

\* Editor::handle_tab_input
handle_tab_input ==
    LET col == cursor.col
        row == cursor.row
    IN  \E w \in write_times(Current, SPACE, TAB_SIZE) :
           IF w.ok
           THEN /\ buffer_list' =
                      SetBuffer(buffer_list, current_buffer,
                          move_point_to([Current EXCEPT !.content = w.content],
                                        row + display.first_line_visible,
                                        col + TAB_SIZE))
                /\ cursor' = MoveTo(col + TAB_SIZE, row)
                /\ UNCHANGED <<display, failed>>
           ELSE Abort(buffer_list)

\* Editor::handle_backspace_input
handle_backspace_input ==
    LET col == cursor.col
        row == cursor.row
        first_visible_row == display.first_line_visible
    IN  IF row > 0 /\ col = 0
        THEN LET new_row == row - 1
             IN  \E last_column \in get_last_column(Current, new_row) :
                   IF IsSome(last_column)
                   THEN LET new_col == Unwrap(last_column)
                            moved == move_point_to(Current,
                                         new_row + first_visible_row, new_col)
                        IN  \E rm \in remove_char(moved),
                               screen_col \in SubOutcomes(new_col, 1) :
                               IF rm.ok /\ IsSome(screen_col)
                               THEN /\ buffer_list' =
                                          SetBuffer(buffer_list, current_buffer,
                                              [moved EXCEPT !.content = rm.content])
                                    /\ cursor' = MoveTo(Unwrap(screen_col), new_row)
                                    /\ UNCHANGED <<display, failed>>
                               ELSE Abort(SetBuffer(buffer_list, current_buffer, moved))
                   ELSE Abort(buffer_list)
        ELSE IF col > 0
        THEN LET moved == move_point_to(Current, row + first_visible_row, col - 1)
             IN  \E rm \in remove_char(moved) :
                    IF rm.ok
                    THEN /\ buffer_list' =
                               SetBuffer(buffer_list, current_buffer,
                                   [moved EXCEPT !.content = rm.content])
                         /\ cursor' = MoveTo(col - 1, row)
                         /\ UNCHANGED <<display, failed>>
                    ELSE Abort(SetBuffer(buffer_list, current_buffer, moved))
        ELSE NoMove

\* Editor::handle_enter_input in Normal mode (lines 312-320).
EnterNormal ==
    LET row == cursor.row
    IN  \E w \in write_char(Current, NL) :
           IF w.ok
           THEN LET scrolled == IF row + 1 = display.height
                                THEN display.first_line_visible + 1
                                ELSE display.first_line_visible
                IN  /\ display' = [display EXCEPT !.first_line_visible = scrolled]
                    /\ buffer_list' =
                          SetBuffer(buffer_list, current_buffer,
                              move_point_to([Current EXCEPT !.content = w.content],
                                            scrolled + row + 1, 0))
                    /\ cursor' = MoveTo(0, row + 1)
                    /\ UNCHANGED failed
           ELSE Abort(buffer_list)

\* OpenOptions::open fails on the empty path.
OpenFails(filename) == filename = <<>>

\* The bytes handle_save_file writes: the content of the current buffer.
FileDataReserved(list, current) == list[1].content
FileData(list, current) == list[current + 1].content

\* Editor::handle_save_file, entered with these buffers and indices.
handle_save_file(list, current, previous) ==
    LET filename == list[current + 1].file_name
    IN  IF current # 0 /\ IsSome(filename)
        THEN IF OpenFails(Unwrap(filename))
             THEN /\ failed' = TRUE
                  /\ buffer_list' = list
                  /\ current_buffer' = current
                  /\ previous_buffer' = previous
                  /\ written' = None
                  /\ UNCHANGED <<mode, cursor, saved>>
             ELSE /\ written' = Some([path |-> Unwrap(filename),
                                      data |-> FileData(list, current)])
                  /\ mode' = Normal
                  /\ RestorePosition
                  /\ buffer_list' = list
                  /\ current_buffer' = current
                  /\ previous_buffer' = previous
                  /\ UNCHANGED failed
        ELSE IF current # 0
        THEN /\ previous_buffer' = current
             /\ current_buffer' = 0
             /\ mode' = SaveMode
             /\ cursor' = MoveTo(0, 0)
             /\ buffer_list' = list
             /\ written' = None
             /\ UNCHANGED <<saved, failed>>
        ELSE /\ buffer_list' = list
             /\ current_buffer' = current
             /\ previous_buffer' = previous
             /\ written' = None
             /\ UNCHANGED <<mode, cursor, saved, failed>>

\* Editor::handle_enter_input in SaveMode (lines 321-326).
EnterSaveNamesCurrent ==
    handle_save_file(
        [buffer_list EXCEPT ![current_buffer + 1].file_name =
                                Some(buffer_list[1].content)],
        previous_buffer, 0)
EnterSave ==
    handle_save_file(
        [buffer_list EXCEPT ![previous_buffer + 1].file_name =
                                Some(buffer_list[1].content)],
        previous_buffer, 0)

\* Editor::handle_cancel_save, and the RestorePosition that follows it.
handle_cancel_save ==
    /\ RestorePosition
    /\ written' = None
    /\ UNCHANGED <<buffer_list, current_buffer, previous_buffer, mode, failed>>

\* Editor::handle_resizing
handle_resizing(width, height) ==
    LET p == get_point_line_and_column(Current)
    IN  /\ display' = [display EXCEPT !.height = height, !.width = width]
        /\ term' = [width |-> width, height |-> height]
        /\ cursor' = IF IsSome(p)
                     THEN [col |-> Min(Unwrap(p)[2], width - 1),
                           row |-> Min(Unwrap(p)[1], height - 1)]
                     ELSE [col |-> Min(cursor.col, width - 1),
                           row |-> Min(cursor.row, height - 1)]

\* ------------------------------------------------------------------ events

EditKeys == {"Char", "Right", "Left", "Up", "Down", "Backspace", "Enter", "Tab"}

\* The terminal cursor is where the point is drawn.
CursorAtPoint ==
    /\ cursor.col = Current.point.col
    /\ cursor.row = Current.point.row - display.first_line_visible

Track(ev, c) ==
    /\ last' = IF watch # "last" THEN last
               ELSE [ev |-> ev, flv |-> display.first_line_visible]
    /\ undo' = IF watch # "undo" THEN undo
               ELSE IF /\ ev = "Char"
                       /\ mode = Normal
                       /\ CursorAtPoint
                       /\ PointValid(Current.content, Current.point)
               THEN [phase |-> "typed", before |-> Current.content]
               ELSE IF ev = "Backspace" /\ undo.phase = "typed"
               THEN [phase |-> "removed", before |-> undo.before]
               ELSE [phase |-> "none", before |-> <<>>]
    /\ wf' = IF watch # "wf" THEN wf
             ELSE IF ev = "CtrlX" /\ mode = Normal /\ Current.file_name = None
             THEN [phase |-> "asked", typed |-> <<>>,
                   current |-> current_buffer, previous |-> previous_buffer,
                   flv |-> display.first_line_visible]
             ELSE IF ev \in {"prompt Y", "prompt y"} /\ wf.phase = "asked"
             THEN [wf EXCEPT !.phase = "typing"]
             ELSE IF ev = "Char" /\ wf.phase = "typing"
             THEN [wf EXCEPT !.typed = Append(wf.typed, c)]
             ELSE IF ev = "Enter" /\ wf.phase = "typing"
             THEN [wf EXCEPT !.phase = "done"]
             ELSE NoWorkflow
    /\ budget # 0
    /\ budget' = IF budget > 0 THEN budget - 1 ELSE budget
    /\ UNCHANGED <<watch, query, answer>>

\* handle_key_events reads the next event: the loop runs until exit is set
\* or a handler fails.
ReadingUnchecked == pc = "loop" /\ ~failed
Reading == pc = "loop" /\ ~exit /\ ~failed

\* What the handlers of the editing keys leave alone.
KeyFrame ==
    /\ written' = None
    /\ UNCHANGED <<current_buffer, previous_buffer, mode, exit, term, saved, pc>>

\* Event::Resize(width, height)
Resize(width, height) ==
    /\ Reading
    /\ handle_resizing(width, height)
    /\ written' = None
    /\ UNCHANGED <<buffer_list, current_buffer, previous_buffer, mode, exit,
                   saved, pc, failed>>
    /\ Track("Resize", "")

\* KeyCode::Char('q') with CONTROL
CtrlQ ==
    /\ Reading
    /\ exit' = TRUE
    /\ written' = None
    /\ UNCHANGED <<buffer_list, current_buffer, previous_buffer, mode, display,
                   term, cursor, saved, pc, failed>>
    /\ Track("CtrlQ", "")

\* KeyCode::Char('x') with CONTROL: in Normal mode handle_save_mode_input
\* stores the cursor position and asks; in SaveMode no arm takes the key.
CtrlXAnyMode ==
    /\ Reading
    /\ saved' = cursor
    /\ pc' = "prompt"
    /\ written' = None
    /\ UNCHANGED <<buffer_list, current_buffer, previous_buffer, mode, exit,
                   display, term, cursor, failed>>
    /\ Track("CtrlX", "")
CtrlX ==
    /\ Reading
    /\ IF mode = Normal
       THEN /\ saved' = cursor
            /\ pc' = "prompt"
       ELSE UNCHANGED <<saved, pc>>
    /\ written' = None
    /\ UNCHANGED <<buffer_list, current_buffer, previous_buffer, mode, exit,
                   display, term, cursor, failed>>
    /\ Track("CtrlX", "")

\* KeyCode::Char(c) without modifier or with SHIFT
KeyChar(c) ==
    /\ Reading
    /\ Len(Buffer(InputBuffer).content) < (IF mode = Normal THEN MaxLen ELSE MaxName)
    /\ handle_char_input(c)
    /\ KeyFrame
    /\ Track("Char", c)

\* KeyCode::Right, Left, Up, Down
KeyArrow(movement) ==
    /\ Reading
    /\ display.first_line_visible + cursor.row < MaxRow
    /\ handle_cursor_movement(movement)
    /\ KeyFrame
    /\ Track(movement, "")

\* KeyCode::Backspace
KeyBackspace ==
    /\ Reading
    /\ handle_backspace_input
    /\ KeyFrame
    /\ Track("Backspace", "")

\* KeyCode::Enter
KeyEnter ==
    /\ Reading
    /\ IF mode = Normal
       THEN /\ Len(Current.content) < MaxLen
            /\ display.first_line_visible + cursor.row < MaxRow
            /\ EnterNormal
            /\ KeyFrame
       ELSE /\ EnterSave
            /\ UNCHANGED <<exit, display, term, pc>>
    /\ Track("Enter", "")

\* KeyCode::Tab
KeyTab ==
    /\ Reading
    /\ Len(Current.content) <= MaxBeforeTab
    /\ handle_tab_input
    /\ KeyFrame
    /\ Track("Tab", "")

\* Any other key or event: the `_ => ()` arms.
OtherEvent ==
    /\ Reading
    /\ written' = None
    /\ UNCHANGED <<buffer_list, current_buffer, previous_buffer, mode, exit,
                   display, term, cursor, saved, pc, failed>>
    /\ Track("Other", "")

\* The events the yes/no loop of handle_save_mode_input may read.
PromptKeys == {"prompt Y", "prompt y", "prompt N", "prompt n",
               "prompt Ctrl+Q", "prompt Esc", "prompt a", "prompt Enter"}

\* matches!(code, KeyCode::Char('Y') | KeyCode::Char('y'))
IsYes(key) == key \in {"prompt Y", "prompt y"}

\* matches!(code, KeyCode::Char('N') | KeyCode::Char('n'))
IsNoOrEsc(key) == key \in {"prompt N", "prompt n", "prompt Esc"}
IsNo(key) == key \in {"prompt N", "prompt n"}

\* A key read by the yes/no loop.
PromptKey(key) ==
    /\ pc = "prompt"
    /\ ~failed
    /\ IF IsYes(key)
       THEN /\ handle_save_file(buffer_list, current_buffer, previous_buffer)
            /\ pc' = "loop"
       ELSE IF IsNo(key)
       THEN /\ handle_cancel_save
            /\ pc' = "loop"
       ELSE /\ UNCHANGED <<buffer_list, current_buffer, previous_buffer, mode,
                           cursor, saved, pc, failed, written>>
    /\ UNCHANGED <<exit, display, term>>
    /\ Track(key, "")

\* The window is resized while the yes/no loop reads: the loop drops the
\* event, and the terminal keeps its cursor inside the new window.
PromptResize(width, height) ==
    /\ pc = "prompt"
    /\ ~failed
    /\ term' = [width |-> width, height |-> height]
    /\ cursor' = [col |-> Min(cursor.col, width - 1),
                  row |-> Min(cursor.row, height - 1)]
    /\ UNCHANGED <<buffer_list, current_buffer, previous_buffer, mode, exit,
                   display, saved, pc, failed, written>>
    /\ Track("prompt Resize", "")

Next ==
    \/ \E size \in Sizes : Resize(size.width, size.height)
    \/ CtrlQ
    \/ CtrlX
    \/ \E c \in Chars : KeyChar(c)
    \/ \E m \in CursorMovement : KeyArrow(m)
    \/ KeyBackspace
    \/ KeyEnter
    \/ KeyTab
    \/ OtherEvent
    \/ \E k \in PromptKeys : PromptKey(k)
    \/ \E size \in Sizes : PromptResize(size.width, size.height)

Spec == Init /\ [][Next]_vars

\* The editing keys alone, in runs of any length.
InitKeys ==
    /\ EditorInit
    /\ NoHistory
    /\ watch = "last"
    /\ budget = -1
    /\ query = NoQuery
    /\ answer = NoAnswer

NextKeys ==
    \/ \E c \in Chars : KeyChar(c)
    \/ \E m \in CursorMovement : KeyArrow(m)
    \/ KeyBackspace
    \/ KeyEnter
    \/ KeyTab

SpecKeys == InitKeys /\ [][NextKeys]_vars

\* The editing keys alone, recording a character typed and removed at once.
InitUndo ==
    /\ EditorInit
    /\ NoHistory
    /\ watch = "undo"
    /\ budget = -1
    /\ query = NoQuery
    /\ answer = NoAnswer

SpecUndo == InitUndo /\ [][NextKeys]_vars

\* Every event, recording the save-as event sequence.
InitSaveAs ==
    /\ EditorInit
    /\ NoHistory
    /\ watch = "wf"
    /\ budget = MaxEvents
    /\ query = NoQuery
    /\ answer = NoAnswer

SpecSaveAs == InitSaveAs /\ [][Next]_vars

\* Down keys alone, from the start of the buffer, counted by the budget.
InitDown ==
    /\ EditorInit
    /\ NoHistory
    /\ watch = "none"
    /\ budget = MaxEvents
    /\ query = NoQuery
    /\ answer = NoAnswer

NextDown == KeyArrow(Down)

SpecDown == InitDown /\ [][NextDown]_vars

\* The cursor engine as a pure function: every occupied-column sequence, row,
\* column and movement within MaxCoord, and one step that asks the engine.
Entries == {None} \cup {Some(k) : k \in 0..MaxCoord}
Queries ==
    [occupied_positions : SeqsUpTo(Entries, MaxCoord),
     row : 0..(MaxCoord + 1), col : 0..(MaxCoord + 2),
     movement : CursorMovement]

InitResolve ==
    /\ buffer_list = <<init_option_buffer, BufferDefault>>
    /\ current_buffer = 1
    /\ previous_buffer = 0
    /\ mode = Normal
    /\ exit = FALSE
    /\ display = [width |-> MaxLen + 3, height |-> 1, first_line_visible |-> 0]
    /\ term = [width |-> MaxLen + 3, height |-> 1]
    /\ cursor = Origin
    /\ saved = Origin
    /\ pc = "loop"
    /\ failed = FALSE
    /\ written = None
    /\ NoHistory
    /\ watch = "none"
    /\ budget = 0
    /\ query \in Queries
    /\ answer = NoAnswer

Resolve ==
    /\ answer = NoAnswer
    /\ answer' = Some(get_cursor_valid_position(query.occupied_positions,
                          query.row, query.col, query.movement))
    /\ UNCHANGED <<buffer_list, current_buffer, previous_buffer, mode, exit,
                   display, term, cursor, saved, pc, failed, written, budget,
                   watch, last, undo, wf, query>>

SpecResolve == InitResolve /\ [][Resolve]_vars

\* The engine and its companion predicate asked about the same input.
Validate ==
    /\ answer = NoAnswer
    /\ answer' =
          Some([position |->
                    get_cursor_valid_position(query.occupied_positions,
                        query.row, query.col, query.movement),
                valid |->
                    is_cursor_position_valid(query.occupied_positions,
                        query.row, query.col)])
    /\ UNCHANGED <<buffer_list, current_buffer, previous_buffer, mode, exit,
                   display, term, cursor, saved, pc, failed, written, budget,
                   watch, last, undo, wf, query>>

SpecValidate == InitResolve /\ [][Validate]_vars

\* ---------------------------------------------------------------------------
\* Properties
\* ---------------------------------------------------------------------------

UserPoint == Current.point
UserContent == Current.content
FirstLine == display.first_line_visible

\* C1 (SpecKeys): in Normal mode, after any sequence of key events whose
\* handlers returned, the current buffer's point (row, col) is a valid
\* position: row is an existing line of the content and col is at most the
\* length of that line.
C1_PointStaysValid ==
    (mode = Normal /\ ~failed) => PointValid(UserContent, UserPoint)

\* C2 (SpecKeys): in Normal mode, after the handler of Char, Tab, Enter,
\* Backspace or an arrow key returned, the terminal cursor is at column
\* point.col and at screen row point.row - first_line_visible, and that screen
\* row lies in [0, height).
C2_ScreenFollowsPoint ==
    (mode = Normal /\ ~failed /\ last.ev \in EditKeys)
        => /\ cursor.col = UserPoint.col
           /\ cursor.row = UserPoint.row - FirstLine
           /\ UserPoint.row - FirstLine \in 0..(display.height - 1)

AnswerPosition == Unwrap(Unwrap(answer))
Answered == answer # NoAnswer
AnsweredSome == Answered /\ IsSome(Unwrap(answer))

\* C3 (SpecResolve): whenever get_cursor_valid_position returns (r, c) and
\* row r has a last occupied column k, c <= k + 1.
C3_ClampInvariant ==
    AnsweredSome =>
        LET r == AnswerPosition[1]
            c == AnswerPosition[2]
            occ == query.occupied_positions
        IN  (r < Len(occ) /\ IsSome(occ[r + 1])) => c <= Unwrap(occ[r + 1]) + 1

\* An Up request beyond k + 1 on an occupied row was answered with column k.
C3_Clamped ==
    /\ AnsweredSome
    /\ query.movement = Up
    /\ query.row < Len(query.occupied_positions)
    /\ IsSome(query.occupied_positions[query.row + 1])
    /\ query.col > Unwrap(query.occupied_positions[query.row + 1]) + 1
    /\ AnswerPosition =
           <<query.row, Unwrap(query.occupied_positions[query.row + 1])>>

\* C4 (SpecResolve), as stated: get_cursor_valid_position returns None exactly
\* when the requested row is >= the number of entries, or the movement is
\* Left from row 0, or the movement is Right from the last row.
C4_RejectsExactlyAtBoundary ==
    Answered =>
        (Unwrap(answer) = None
            <=> \/ query.row >= Len(query.occupied_positions)
                \/ query.movement = Left /\ query.row = 0
                \/ /\ query.movement = Right
                   /\ query.row = Len(query.occupied_positions) - 1)

\* C4 (SpecResolve), amended: get_cursor_valid_position returns None exactly
\* when the sequence is non-empty and either the requested row is >= the
\* number of entries, or the row has a last occupied column k, the requested
\* column is > k + 1 and the movement is Left on row 0 or Right on the last
\* row.
C4_RejectsPastEndAtBoundary ==
    Answered =>
        LET occ == query.occupied_positions
        IN  Unwrap(answer) = None
                <=> /\ occ # <<>>
                    /\ \/ query.row >= Len(occ)
                       \/ /\ IsSome(occ[query.row + 1])
                          /\ query.col > Unwrap(occ[query.row + 1]) + 1
                          /\ \/ query.movement = Left /\ query.row = 0
                             \/ /\ query.movement = Right
                                /\ query.row = Len(occ) - 1

\* A Right request past the end of the last row was rejected.
C4_RejectedRightOnLastRow ==
    /\ Answered
    /\ Unwrap(answer) = None
    /\ query.movement = Right
    /\ query.row = Len(query.occupied_positions) - 1

\* C5 (SpecKeys): a Left key pressed with the point at column 0 of a row
\* r > 0 (cursor on the point, point valid) moves the point to row r - 1, at
\* that row's last occupied column (column 0 when the row is empty).
C5_LeftWrapsToPreviousRow ==
    [][(/\ last'.ev = Left
        /\ ~failed'
        /\ PointValid(UserContent, UserPoint)
        /\ CursorAtPoint
        /\ UserPoint.col = 0
        /\ UserPoint.row > 0)
        => LET above == Occupied[UserPoint.row]
           IN  UserPoint' = [row |-> UserPoint.row - 1,
                             col |-> IF IsSome(above) THEN Unwrap(above)
                                     ELSE 0]]_vars

\* C6 (SpecUndo): a character typed at a valid point and removed by the
\* Backspace that follows at once leaves the content as it was before the
\* character was typed.
C6_TypeThenBackspace ==
    (undo.phase = "removed" /\ ~failed) => UserContent = undo.before

\* C7 (Spec): every event changes first_line_visible by -1, 0 or +1, and
\* first_line_visible is never negative.
C7_ScrollByOne ==
    /\ FirstLine - last.flv \in {-1, 0, 1}
    /\ FirstLine >= 0

\* A Down key scrolled the window forward by one line.
C7_ScrolledForward ==
    /\ last.ev = Down
    /\ ~failed
    /\ FirstLine = last.flv + 1

SaveModeTyping ==
    mode = SaveMode /\ last'.ev \in {"Char", Up, Down, Left, Right}

\* C8 (Spec), as stated: in SaveMode a printable-character or arrow-key event
\* changes no state of the editor.
C8_SaveModeIgnoresKeys ==
    [][SaveModeTyping
        => /\ UNCHANGED <<buffer_list, current_buffer, previous_buffer, mode>>
           /\ FirstLine' = FirstLine]_vars

\* C8 (Spec), amended: in SaveMode a printable-character or arrow-key event
\* leaves the user buffer (the one at index previous_buffer), current_buffer,
\* previous_buffer, mode and the reserved buffer's file name unchanged; it
\* acts on the reserved buffer's content and point and on the window.
C8_SaveModeKeepsUserBuffer ==
    [][SaveModeTyping
        => /\ Buffer(previous_buffer)' = Buffer(previous_buffer)
           /\ Buffer(current_buffer)'.file_name = Buffer(current_buffer).file_name
           /\ UNCHANGED <<current_buffer, previous_buffer, mode>>]_vars

\* A character typed in SaveMode is in the reserved buffer.
C8_TypedInSaveMode ==
    /\ mode = SaveMode
    /\ ~failed
    /\ last.ev = "Char"
    /\ Buffer(0).content # <<>>

\* C9 (Spec): the yes/no prompt is left only by Y, y, N or n; any other event
\* read by the prompt leaves every field of the editor as it was and the
\* prompt keeps reading.
C9_PromptLeftByYesNoOnly ==
    [][pc = "prompt"
        => \/ last'.ev \in {"prompt Y", "prompt y", "prompt N", "prompt n"}
           \/ /\ pc' = "prompt"
              /\ UNCHANGED <<editorVars, saved, failed, written>>]_vars

\* The prompt read Ctrl+Q and keeps reading.
C9_PromptReadCtrlQ ==
    /\ pc = "prompt"
    /\ last.ev = "prompt Ctrl+Q"
    /\ ~exit

SaveKeys == {"CtrlX", "prompt Y", "prompt y", "prompt N", "prompt n"}

\* C11 (Spec): when the current buffer has a file name, the save shortcut and
\* the Y or N that answers it leave content, point, file name,
\* first_line_visible, current_buffer, previous_buffer and mode (Normal) as
\* they were; Y writes exactly the buffer content to the file of that name,
\* and the shortcut and N write nothing.
C11_SaveNamedBuffer ==
    [][(/\ mode = Normal
        /\ IsSome(Current.file_name)
        /\ last'.ev \in SaveKeys
        /\ (pc = "prompt" \/ last'.ev = "CtrlX")
        /\ ~failed')
        => /\ UNCHANGED <<buffer_list, current_buffer, previous_buffer, mode>>
           /\ FirstLine' = FirstLine
           /\ written' = IF last'.ev \in {"prompt Y", "prompt y"}
                         THEN Some([path |-> Unwrap(Current.file_name),
                                    data |-> UserContent])
                         ELSE None]_vars

\* Y answered the save of a named buffer with content, which was written.
C11_NamedBufferSaved ==
    /\ last.ev \in {"prompt Y", "prompt y"}
    /\ mode = Normal
    /\ UserContent # <<>>
    /\ written = Some([path |-> LoadedName, data |-> UserContent])

\* C12 (SpecKeys): a Backspace pressed with the point at column 0 of a row
\* r > 0 (cursor on the point, point valid, whatever first_line_visible is)
\* removes the line break before the point: the content has one line fewer
\* and the point is on row r - 1 at the column where the two lines join.
C12_BackspaceMergesLines ==
    [][(/\ last'.ev = "Backspace"
        /\ ~failed'
        /\ PointValid(UserContent, UserPoint)
        /\ CursorAtPoint
        /\ UserPoint.col = 0
        /\ UserPoint.row > 0)
        => /\ UserContent' =
                 RemoveAt(UserContent, LinearPosition(UserContent, UserPoint))
           /\ NumLines(UserContent') = NumLines(UserContent) - 1
           /\ UserPoint' =
                 [row |-> UserPoint.row - 1,
                  col |-> Len(SplitLines(UserContent)[UserPoint.row])]]_vars

\* C13 (Spec): a Ctrl+Q handled by the main loop, in Normal mode or in
\* SaveMode, sets the exit flag; once the flag is set no event is handled any
\* more (the loop has ended), so the flag is never reset.
C13_ExitEndsLoop ==
    [][/\ ~exit
       /\ last'.ev = "CtrlQ" => exit'
       /\ exit' => last'.ev = "CtrlQ"]_vars

\* Ctrl+Q was handled while the file name was being typed.
C13_ExitInSaveMode ==
    /\ exit
    /\ mode = SaveMode
    /\ last.ev = "CtrlQ"

\* C14 (Spec): in every reachable state buffer_list holds its two startup
\* buffers, the buffer at index 0 is the reserved one, of type OPTION and
\* without a file name, and what an event writes to a file is the user
\* buffer's content under the user buffer's name, never the reserved
\* buffer's.
C14_ReservedBuffer ==
    /\ Len(buffer_list) = 2
    /\ Buffer(0).buffer_type = OPTION
    /\ Buffer(0).file_name = None
    /\ Buffer(1).buffer_type = NORMAL
    /\ IsSome(written)
          => /\ Unwrap(written).data = Buffer(1).content
             /\ Some(Unwrap(written).path) = Buffer(1).file_name

\* A file was written while the reserved buffer held the name typed for it.
C14_WrittenWithNameTyped ==
    /\ IsSome(written)
    /\ Buffer(0).content # <<>>
    /\ Buffer(0).content # Buffer(1).content
    /\ Buffer(0).content = Unwrap(written).path

\* The resolve algorithm of the specification's section 4.3, steps 2 to 4.
resolve(occupied, row, col, movement) ==
    LET has_next == row + 1 < Len(occupied)
    IN  CASE occupied = <<>> -> Some(<<row, col>>)
          [] occupied # <<>> /\ row >= Len(occupied) -> None
          [] OTHER ->
               IF occupied[row + 1] = None
               THEN IF movement = Right /\ has_next
                    THEN Some(<<row + 1, 0>>)
                    ELSE Some(<<row, 0>>)
               ELSE LET k == occupied[row + 1][1]
                    IN  IF col <= k + 1 THEN Some(<<row, col>>)
                        ELSE IF movement \in {Up, Down} THEN Some(<<row, k>>)
                        ELSE IF movement = Left
                        THEN IF row = 0 THEN None
                             ELSE Some(<<row - 1,
                                         IF occupied[row] = None THEN 0
                                         ELSE occupied[row][1]>>)
                        ELSE IF has_next THEN Some(<<row + 1, 0>>) ELSE None

\* C15 (SpecResolve): for every occupied-column sequence, row, column and
\* movement, get_cursor_valid_position returns what the resolve algorithm of
\* the specification returns.
C15_EngineIsResolve ==
    Answered =>
        Unwrap(answer) = resolve(query.occupied_positions, query.row,
                                 query.col, query.movement)

\* Scenario A: occupied columns [1, 3], Right from (0, 2) asks for (0, 3) and
\* wraps to (1, 0).
C15_ScenarioA ==
    /\ query = [occupied_positions |-> <<Some(1), Some(3)>>,
                row |-> 0, col |-> 3, movement |-> Right]
    /\ answer = Some(Some(<<1, 0>>))

\* The Down keys handled so far in a run of SpecDown.
DownsPressed == MaxEvents - budget

C17_ResizeReanchors ==
    [][(/\ last'.ev = "Resize"
        /\ mode = Normal
        /\ PointValid(UserContent, UserPoint)
        /\ CursorAtPoint
        /\ UserPoint.col < term'.width
        /\ UserPoint.row - FirstLine < term'.height)
        => /\ UNCHANGED <<buffer_list, current_buffer, previous_buffer, mode, exit>>
           /\ display' = [display EXCEPT !.width = term'.width,
                                         !.height = term'.height]
           /\ cursor'.col = UserPoint.col
           /\ cursor'.row = UserPoint.row - FirstLine]_vars

\* C18 (SpecKeys): handle_backspace_input never calls remove_char with the
\* point at the absolute start of the buffer.  The handler moves the point
\* and then calls remove_char, in its second branch (cursor column > 0)
\* always and in its first (column 0 of a screen row > 0) whenever it
\* returns; the point it leaves is the point of the call, and is not (0, 0).
C18_BackspaceGuard ==
    [][(/\ last'.ev = "Backspace"
        /\ \/ cursor.col > 0
           \/ cursor.row > 0 /\ ~failed')
        => UserPoint' # [row |-> 0, col |-> 0]]_vars

\* C19 (SpecValidate), as stated: for every occupied-column sequence, row,
\* column and movement, is_cursor_position_valid(row, col) is true exactly
\* when get_cursor_valid_position(row, col, movement) returns (row, col)
\* unchanged.
C19_ValidIffUnchanged ==
    Answered =>
        (Unwrap(answer).valid
            <=> Unwrap(answer).position = Some(<<query.row, query.col>>))

\* Right asked about column 0 of an empty row that has a next row.
RightFromEmptyRow ==
    /\ query.movement = Right
    /\ query.row + 1 < Len(query.occupied_positions)
    /\ query.occupied_positions[query.row + 1] = None
    /\ query.col = 0

\* C19 (SpecValidate), amended: is_cursor_position_valid(row, col) is true
\* exactly when get_cursor_valid_position(row, col, movement) returns
\* (row, col) unchanged, except for Right at column 0 of an empty row that
\* has a next row: there the position is valid and the engine returns
\* (row + 1, 0).
C19_ValidIffUnchangedButRightFromEmptyRow ==
    Answered =>
        IF RightFromEmptyRow
        THEN /\ Unwrap(answer).valid
             /\ Unwrap(answer).position = Some(<<query.row + 1, 0>>)
        ELSE Unwrap(answer).valid
                <=> Unwrap(answer).position = Some(<<query.row, query.col>>)

\* The append position of an occupied row was found valid and left unchanged.
C19_AppendPositionValid ==
    /\ Answered
    /\ query.row < Len(query.occupied_positions)
    /\ IsSome(query.occupied_positions[query.row + 1])
    /\ query.col = Unwrap(query.occupied_positions[query.row + 1]) + 1
    /\ Unwrap(answer).valid
    /\ Unwrap(answer).position = Some(<<query.row, query.col>>)

\* Between two events of the main loop, SaveMode goes with the reserved
\* buffer as current and the user buffer as previous, Normal with the user
\* buffer as current and 0 as previous.
ModeIndexCoupling ==
    (pc = "loop" /\ ~failed)
        => /\ mode = SaveMode <=> current_buffer = 0
           /\ mode = SaveMode <=> previous_buffer # 0
           /\ mode = Normal => current_buffer = 1 /\ previous_buffer = 0

\* C20 (Spec): whenever the main loop is between two events, mode is
\* SaveMode exactly when current_buffer is 0 and exactly when
\* previous_buffer is not 0, in Normal mode current_buffer is 1 and
\* previous_buffer is 0; and a save shortcut received in SaveMode changes
\* nothing.
C20_ModeFollowsIndices ==
    /\ []ModeIndexCoupling
    /\ [][(mode = SaveMode /\ last'.ev = "CtrlX")
            => UNCHANGED <<editorVars, term, cursor, saved, pc, failed>>]_vars

\* The save shortcut was received while the file name was being typed.
C20_ShortcutInSaveMode ==
    /\ mode = SaveMode
    /\ current_buffer = 0
    /\ previous_buffer = 1
    /\ pc = "loop"
    /\ last.ev = "CtrlX"

====
